---- MODULE Spec2Model ----
(***************************************************************************)
(* Model of the resource catalog service of src/resources.py: the Flask   *)
(* handlers upload_resource, get_single_resource, update_resource and     *)
(* delete_resource, the MongoDB collection `resources` they write and the *)
(* Cloudinary blob store they call.                                       *)
(*                                                                         *)
(* Text is a sequence of one-character strings, so that lower(),          *)
(* secure_filename() and splitext() are computed character by character.  *)
(* Python's None is the value None below.                                 *)
(***************************************************************************)
EXTENDS Integers, Sequences, FiniteSets, TLC

(***************************************************************************)
(* Bounds of the exploration.                                              *)
(***************************************************************************)
\* number of requests handled in one behaviour
MaxOps == 3
\* number of identifiers the repository hands out
MaxRecords == 2

(***************************************************************************)
(* Values.                                                                 *)
(***************************************************************************)
None == <<"None">>

\* Python truthiness of an optional text: neither None nor empty
Truthy(v) == v # None /\ v # <<>>

Uppercase == <<"A", "B", "C", "D", "E", "F", "G", "H", "I", "J", "K", "L", "M",
               "N", "O", "P", "Q", "R", "S", "T", "U", "V", "W", "X", "Y", "Z">>
Lowercase == <<"a", "b", "c", "d", "e", "f", "g", "h", "i", "j", "k", "l", "m",
               "n", "o", "p", "q", "r", "s", "t", "u", "v", "w", "x", "y", "z">>
Digits == {"0", "1", "2", "3", "4", "5", "6", "7", "8", "9"}

IsUpper(c) == \E i \in 1..Len(Uppercase) : Uppercase[i] = c
IsLower(c) == \E i \in 1..Len(Lowercase) : Lowercase[i] = c

LowerChar(c) ==
    IF IsUpper(c) THEN Lowercase[CHOOSE i \in 1..Len(Uppercase) : Uppercase[i] = c]
    ELSE c

\* str.lower()
Lower(s) == [i \in 1..Len(s) |-> LowerChar(s[i])]

(***************************************************************************)
(* werkzeug.utils.secure_filename and os.path.splitext, as the handlers    *)
(* call them.                                                              *)
(***************************************************************************)
RECURSIVE TrimLeft(_, _)
TrimLeft(s, cs) ==
    IF s # <<>> /\ s[1] \in cs THEN TrimLeft(Tail(s), cs) ELSE s

RECURSIVE TrimRight(_, _)
TrimRight(s, cs) ==
    IF s # <<>> /\ s[Len(s)] \in cs THEN TrimRight(SubSeq(s, 1, Len(s) - 1), cs) ELSE s

Strip(s, cs) == TrimRight(TrimLeft(s, cs), cs)

\* "_".join(s.split()) for a text already stripped of outer blanks
RECURSIVE JoinWords(_)
JoinWords(s) ==
    IF s = <<>> THEN <<>>
    ELSE IF s[1] = " " THEN <<"_">> \o JoinWords(TrimLeft(s, {" "}))
    ELSE <<s[1]>> \o JoinWords(Tail(s))

\* the characters the regular expression [^A-Za-z0-9_.-] keeps
IsSafeChar(c) == IsUpper(c) \/ IsLower(c) \/ c \in Digits \/ c \in {"_", ".", "-"}

secure_filename(filename) ==
    LET noSep  == [i \in 1..Len(filename) |->
                      IF filename[i] = "/" THEN " " ELSE filename[i]]
        joined == JoinWords(Strip(noSep, {" "}))
        ascii  == SelectSeq(joined, IsSafeChar)
    IN  Strip(ascii, {".", "_"})

\* os.path.splitext: <<root, ext>>; the extension starts at the last dot of
\* the last path component, unless only dots precede it there
splitext(p) ==
    LET sepIndex == IF \E i \in 1..Len(p) : p[i] = "/"
                    THEN CHOOSE i \in 1..Len(p) :
                            p[i] = "/" /\ \A j \in (i + 1)..Len(p) : p[j] # "/"
                    ELSE 0
        dotIndex == IF \E i \in 1..Len(p) : p[i] = "."
                    THEN CHOOSE i \in 1..Len(p) :
                            p[i] = "." /\ \A j \in (i + 1)..Len(p) : p[j] # "."
                    ELSE 0
    IN  IF dotIndex > sepIndex
           /\ \E j \in (sepIndex + 1)..(dotIndex - 1) : p[j] # "."
        THEN <<SubSeq(p, 1, dotIndex - 1), SubSeq(p, dotIndex, Len(p))>>
        ELSE <<p, <<>> >>

\* get_file_extension: the extension of a file type, '' for an unknown one
get_file_extension(file_type) ==
    LET t == Lower(file_type)
    IN  CASE t = <<"p", "d", "f">> -> <<".", "p", "d", "f">>
          [] t = <<"d", "o", "c">> -> <<".", "d", "o", "c">>
          [] t = <<"m", "p", "3">> -> <<".", "m", "p", "3">>
          [] t = <<"m", "p", "4">> -> <<".", "m", "p", "4">>
          [] t = <<"i", "m", "g">> -> <<".", "j", "p", "g">>
          [] OTHER -> <<>>

\* the file name download_and_convert returns: the sanitised name, with the
\* extension of the file type put in place of a missing or different one
download_name(original_filename, file_type) ==
    LET filename == secure_filename(original_filename)
        base     == splitext(filename)[1]
        ext      == splitext(filename)[2]
    IN  IF ext = <<>> \/ Lower(ext) # get_file_extension(file_type)
        THEN base \o get_file_extension(file_type)
        ELSE filename

(***************************************************************************)
(* The Cloudinary blob store.  upload(..., folder="naits_resources",       *)
(* use_filename=True, unique_filename=False) names the blob after the      *)
(* uploaded file, so the same file name gives the same public_id.          *)
(***************************************************************************)
\* request.files.get('file'): None, or a file known by its name; a file with
\* an empty name is falsy
RealFiles == {<<"a", ".", "p", "d", "f">>, <<"b", ".", "t", "x", "t">>}
Files     == {None, <<>>} \cup RealFiles

\* secure_filename(file.filename) of every file a request can carry
SecureNames == [f \in RealFiles |-> secure_filename(f)]

\* the public_id the store gives every file a request can carry: the folder
\* and the file name without its extension
PublicIds == [f \in RealFiles |-> <<"naits_resources/">> \o splitext(SecureNames[f])[1]]

PublicId(filename) == PublicIds[filename]

SecureUrl(filename) == <<"https://">> \o PublicId(filename)

\* the result dictionary of cloudinary.uploader.upload when it returns
UploadResult(file, outcome) ==
    IF outcome = "ok"
    THEN [secure_url |-> SecureUrl(file), public_id |-> PublicId(file)]
    ELSE [secure_url |-> None, public_id |-> None]

\* a store that keeps nothing of an upload
StoreAfterUploadNothing(store, file, outcome) == store

\* the store's contents after upload
StoreAfterUpload(store, file, outcome) ==
    IF outcome = "ok" THEN store \cup {PublicId(file)} ELSE store

\* the store's contents after destroy
StoreAfterDestroy(store, public_id, outcome) ==
    IF outcome = "ok" THEN store \ {public_id} ELSE store

(***************************************************************************)
(* Requests.                                                               *)
(***************************************************************************)
RequiredFields == {"title", "level", "department", "category", "file_type"}
\* the keys update_resource copies from the form
UpdatableFields == {"title", "category", "level", "department", "file_type"}

Titles      == {<<"A">>, <<"B">>}
Levels      == {<<"1">>}
Departments == {<<"C", "S">>}
Categories  == {<<"n">>}
FileTypes   == {<<"p", "d", "f">>, <<"P", "D", "F">>}
\* a form field that is not sent (request.form.get gives None) or sent empty
Blank       == {None, <<>>}

FieldChoices == [title      |-> Titles \cup Blank,
                 level      |-> Levels \cup Blank,
                 department |-> Departments \cup Blank,
                 category   |-> Categories \cup Blank,
                 file_type  |-> FileTypes \cup Blank]

\* a form and the forms that differ from it in one field
OneFieldOff(form) ==
    {form} \cup UNION {{[form EXCEPT ![k] = v] : v \in FieldChoices[k]} : k \in RequiredFields}

\* the complete upload form, and the form that sends no field
FullForm == [title |-> <<"A">>, level |-> <<"1">>, department |-> <<"C", "S">>,
             category |-> <<"n">>, file_type |-> <<"p", "d", "f">>]
NoForm   == [title |-> None, level |-> None, department |-> None,
             category |-> None, file_type |-> None]

\* how a call to the store can end: it returns a result with a URL, it
\* raises, or it returns a result without a usable URL
UploadOutcomes == {"ok", "error", "rejected"}
\* destroy returns (the blob is gone) or raises (the blob stays)
DestroyOutcomes == {"ok", "error"}

\* The upload requests explored: every form one field off the complete form
\* with every real file, and the complete form with every file and every way
\* the store can answer.
UploadRequests ==
    {[form |-> f, file |-> fl, put |-> "ok"] : f \in OneFieldOff(FullForm), fl \in RealFiles}
    \cup {[form |-> FullForm, file |-> fl, put |-> p] : fl \in Files, p \in UploadOutcomes}

\* The update requests explored: every form that sends at most one field, with
\* and without a real file; and the empty form with every file and every way
\* the store and the database can answer.  set_ok: whether the database
\* accepts an update whose $set is empty.
UpdateRequests ==
    {[form |-> f, file |-> fl, del |-> "ok", put |-> "ok", set_ok |-> TRUE] :
        f \in OneFieldOff(NoForm), fl \in {None} \cup RealFiles}
    \cup {[form |-> NoForm, file |-> fl, del |-> d, put |-> p, set_ok |-> TRUE] :
        fl \in Files, d \in DestroyOutcomes, p \in UploadOutcomes}
    \cup {[form |-> NoForm, file |-> None, del |-> "ok", put |-> "ok", set_ok |-> FALSE]}

\* the <resource_id> of the URL; 0 stands for a text that is no ObjectId
RequestIds == 0..MaxRecords
IsObjectId(resource_id) == resource_id >= 1

(***************************************************************************)
(* State.                                                                  *)
(***************************************************************************)
VARIABLES
    resources,   \* resources_collection: _id -> document
    blobs,       \* the public_ids the blob store holds
    nextId,      \* the next ObjectId insert_one assigns
    now,         \* datetime.utcnow(), one tick per request
    last,        \* the last request, its response status and its store calls
    inflight     \* the requests being served step by step, one per worker thread

vars == <<resources, blobs, nextId, now, last, inflight>>

NoRequest == [op |-> "none", rid |-> 0, form |-> NoForm, file |-> None,
              status |-> 0, calls |-> <<>>]

\* the worker threads, and a thread that serves no request: the request and
\* the way its store calls end, the handler's position (pc) and its locals
Threads == {"t1", "t2"}
Idle == [pc |-> "idle", op |-> "none", rid |-> 0, form |-> NoForm, file |-> None,
         del |-> "ok", put |-> "ok", found |-> FALSE, resource |-> None,
         update_data |-> <<>>, matched |-> FALSE, status |-> 0, calls |-> <<>>]

Init ==
    /\ resources = <<>>
    /\ blobs = {}
    /\ nextId = 1
    /\ now = 0
    /\ inflight = [t \in Threads |-> Idle]
    /\ last = NoRequest

\* what a handler leaves behind: the response status, the collection, the
\* store and the store calls it made, in order
Outcome(status, docs, store, calls) ==
    [status |-> status, resources |-> docs, blobs |-> store, calls |-> calls]

UploadCall(file, outcome) == [call |-> "upload", arg |-> file, outcome |-> outcome]
DestroyCall(public_id, outcome) ==
    [call |-> "destroy", arg |-> public_id, outcome |-> outcome]

\* insert_one: the document is stored under a fresh _id
insert_one(docs, doc) ==
    [i \in DOMAIN docs \cup {nextId} |-> IF i = nextId THEN doc ELSE docs[i]]

\* a variant with upsert=True: an _id that matches nothing is inserted
update_one_upsert(docs, id, update_data) ==
    [i \in DOMAIN docs \cup {id} |->
        [k \in (IF i \in DOMAIN docs THEN DOMAIN docs[i] ELSE {})
                   \cup (IF i = id THEN DOMAIN update_data ELSE {}) |->
            IF i = id /\ k \in DOMAIN update_data THEN update_data[k] ELSE docs[i][k]]]

\* update_one with $set: the named fields are overwritten, the others kept
update_one(docs, id, update_data) ==
    [i \in DOMAIN docs |->
        IF i = id
        THEN [k \in DOMAIN docs[i] \cup DOMAIN update_data |->
                 IF k \in DOMAIN update_data THEN update_data[k] ELSE docs[i][k]]
        ELSE docs[i]]

\* a variant that matches no document
delete_one_unmatched(docs, id) == docs

\* delete_one
delete_one(docs, id) == [i \in DOMAIN docs \ {id} |-> docs[i]]

(***************************************************************************)
(* POST /upload                                                            *)
(***************************************************************************)
\* the check `None in form_data.values() or not file`
UploadRejects(form, file) ==
    (\E k \in RequiredFields : form[k] = None) \/ ~Truthy(file)

\* the document upload_resource builds
NewResource(form, file, upload_result) ==
    [title                |-> form.title,
     file_url             |-> upload_result.secure_url,
     file_type            |-> Lower(form.file_type),
     level                |-> form.level,
     department           |-> form.department,
     category             |-> form.category,
     created_at           |-> now,
     cloudinary_public_id |-> upload_result.public_id,
     original_filename    |-> SecureNames[file]]

\* a variant that takes every result for a success
UploadFailedNever(upload_result) == FALSE

\* the check `not upload_result.get("secure_url")`
UploadFailed(upload_result) == ~Truthy(upload_result.secure_url)

upload_resource(form, file, put) ==
    IF UploadRejects(form, file)
    THEN Outcome(400, resources, blobs, <<>>)
    ELSE IF put = "error"
    THEN Outcome(500, resources, blobs, <<UploadCall(file, put)>>)
    ELSE
        LET upload_result == UploadResult(file, put)
            store         == StoreAfterUpload(blobs, file, put)
        IN  IF UploadFailed(upload_result)
            THEN Outcome(500, resources, store, <<UploadCall(file, put)>>)
            ELSE Outcome(201,
                         insert_one(resources, NewResource(form, file, upload_result)),
                         store, <<UploadCall(file, put)>>)

Upload ==
    /\ now < MaxOps
    /\ UNCHANGED inflight
    /\ nextId <= MaxRecords
    /\ \E req \in UploadRequests :
          \E r \in {upload_resource(req.form, req.file, req.put)} :
              /\ resources' = r.resources
              /\ blobs' = r.blobs
              /\ nextId' = IF r.status = 201 THEN nextId + 1 ELSE nextId
              /\ now' = now + 1
              /\ last' = [op |-> "upload", rid |-> 0, form |-> req.form,
                          file |-> req.file, status |-> r.status, calls |-> r.calls]

(***************************************************************************)
(* GET /<resource_id>                                                      *)
(***************************************************************************)
get_single_resource(resource_id) ==
    IF ~IsObjectId(resource_id) THEN 400
    ELSE IF resource_id \notin DOMAIN resources THEN 404
    ELSE 200

GetSingle ==
    /\ now < MaxOps
    /\ UNCHANGED inflight
    /\ \E rid \in RequestIds :
          /\ last' = [op |-> "get", rid |-> rid, form |-> NoForm, file |-> None,
                      status |-> get_single_resource(rid), calls |-> <<>>]
          /\ now' = now + 1
          /\ UNCHANGED <<resources, blobs, nextId>>

(***************************************************************************)
(* PUT /<resource_id>                                                      *)
(***************************************************************************)
\* a variant that never destroys the old blob
HasBlobNever(resource) == FALSE

\* the check `resource.get('cloudinary_public_id')` that guards destroy
HasBlob(resource) == Truthy(resource.cloudinary_public_id)

\* a variant that copies every key, sent or not
FormUpdateEveryKey(form) == [k \in UpdatableFields |-> form[k]]

\* the fields copied from the form: `if value := request.form.get(key)`
FormUpdate(form) ==
    [k \in {f \in UpdatableFields : Truthy(form[f])} |-> form[k]]

\* a variant that keeps the old cloudinary_public_id
FileUpdateKeepsId(form, file, resource, upload_result) ==
    [file_url             |-> upload_result.secure_url,
     cloudinary_public_id |-> resource.cloudinary_public_id,
     original_filename    |-> SecureNames[file],
     file_type            |-> IF form.file_type = None THEN resource.file_type
                              ELSE form.file_type]

\* update_data.update({...}) when a file is sent
FileUpdate(form, file, resource, upload_result) ==
    [file_url             |-> upload_result.secure_url,
     cloudinary_public_id |-> upload_result.public_id,
     original_filename    |-> SecureNames[file],
     file_type            |-> IF form.file_type = None THEN resource.file_type
                              ELSE form.file_type]

\* dict.update: the entries of `more` replace or extend those of `data`
DictUpdate(data, more) ==
    [k \in DOMAIN data \cup DOMAIN more |-> IF k \in DOMAIN more THEN more[k] ELSE data[k]]

update_resource(resource_id, form, file, del, put, set_ok) ==
    IF ~IsObjectId(resource_id) THEN Outcome(500, resources, blobs, <<>>)
    ELSE IF resource_id \notin DOMAIN resources THEN Outcome(404, resources, blobs, <<>>)
    ELSE
        LET resource == resources[resource_id]
            old_id   == resource.cloudinary_public_id
            destroys == HasBlob(resource)
            calls1   == IF destroys THEN <<DestroyCall(old_id, del)>> ELSE <<>>
            store1   == IF destroys THEN StoreAfterDestroy(blobs, old_id, del) ELSE blobs
            calls2   == Append(calls1, UploadCall(file, put))
            store2   == StoreAfterUpload(store1, file, put)
        IN  IF Truthy(file)
            THEN IF destroys /\ del = "error"
                 THEN Outcome(500, resources, store1, calls1)
                 ELSE IF put = "error"
                 THEN Outcome(500, resources, store1, calls2)
                 ELSE Outcome(200,
                              update_one(resources, resource_id,
                                  DictUpdate(FormUpdate(form),
                                      FileUpdate(form, file, resource,
                                                 UploadResult(file, put)))),
                              store2, calls2)
            ELSE IF DOMAIN FormUpdate(form) = {} /\ ~set_ok
                 THEN Outcome(500, resources, blobs, <<>>)
                 ELSE Outcome(200, update_one(resources, resource_id, FormUpdate(form)),
                              blobs, <<>>)

Update ==
    /\ now < MaxOps
    /\ UNCHANGED inflight
    /\ \E rid \in RequestIds, req \in UpdateRequests :
          \* an id that matches no document is tried with the empty form only
          /\ rid \in DOMAIN resources
                \/ (req.form = NoForm /\ req.del = "ok" /\ req.put = "ok" /\ req.set_ok)
          /\ \E r \in {update_resource(rid, req.form, req.file, req.del, req.put, req.set_ok)} :
                 /\ resources' = r.resources
                 /\ blobs' = r.blobs
                 /\ last' = [op |-> "update", rid |-> rid, form |-> req.form,
                             file |-> req.file, status |-> r.status, calls |-> r.calls]
          /\ now' = now + 1
          /\ UNCHANGED nextId

(***************************************************************************)
(* DELETE /<resource_id>                                                   *)
(***************************************************************************)
delete_resource(resource_id, del) ==
    IF ~IsObjectId(resource_id) THEN Outcome(500, resources, blobs, <<>>)
    ELSE IF resource_id \notin DOMAIN resources THEN Outcome(404, resources, blobs, <<>>)
    ELSE
        LET old_id   == resources[resource_id].cloudinary_public_id
            destroys == HasBlob(resources[resource_id])
            calls    == IF destroys THEN <<DestroyCall(old_id, del)>> ELSE <<>>
            store    == IF destroys THEN StoreAfterDestroy(blobs, old_id, del) ELSE blobs
        IN  IF destroys /\ del = "error"
            THEN Outcome(500, resources, store, calls)
            ELSE Outcome(200, delete_one(resources, resource_id), store, calls)

Delete ==
    /\ now < MaxOps
    /\ UNCHANGED inflight
    /\ \E rid \in RequestIds, del \in DestroyOutcomes :
          \E r \in {delete_resource(rid, del)} :
              /\ resources' = r.resources
              /\ blobs' = r.blobs
              /\ last' = [op |-> "delete", rid |-> rid, form |-> NoForm, file |-> None,
                          status |-> r.status, calls |-> r.calls]
    /\ now' = now + 1
    /\ UNCHANGED nextId

Next ==
    \/ Upload
    \/ GetSingle
    \/ Update
    \/ Delete

Spec == Init /\ [][Next]_vars

(***************************************************************************)
(* GET /download/<resource_id>                                             *)
(***************************************************************************)
\* requests.get(url) followed by raise_for_status(): the bytes arrive when
\* the transfer works, the URL is one and the store still holds the blob
FetchOutcomes == {"ok", "error"}
FetchCall(url, outcome) == [call |-> "fetch", arg |-> url, outcome |-> outcome]

Fetched(resource, fetch) ==
    /\ fetch = "ok"
    /\ Truthy(resource.file_url)
    /\ resource.cloudinary_public_id \in blobs

\* a download that drops the document whose file it cannot fetch
download_resource_pruning(resource_id, fetch) ==
    IF ~IsObjectId(resource_id)
    THEN Outcome(500, resources, blobs, <<>>) @@ [filename |-> None]
    ELSE IF resource_id \notin DOMAIN resources
    THEN Outcome(404, resources, blobs, <<>>) @@ [filename |-> None]
    ELSE
        LET resource == resources[resource_id]
            calls    == <<FetchCall(resource.file_url, fetch)>>
        IN  IF ~Fetched(resource, fetch)
            THEN Outcome(500, delete_one(resources, resource_id), blobs, calls)
                 @@ [filename |-> None]
            ELSE Outcome(200, resources, blobs, calls)
                 @@ [filename |-> download_name(resource.original_filename,
                                                resource.file_type)]

\* the response: its status, the collection and the store it leaves, its
\* store calls and the download_name of the attachment
download_resource(resource_id, fetch) ==
    IF ~IsObjectId(resource_id)
    THEN Outcome(500, resources, blobs, <<>>) @@ [filename |-> None]
    ELSE IF resource_id \notin DOMAIN resources
    THEN Outcome(404, resources, blobs, <<>>) @@ [filename |-> None]
    ELSE
        LET resource == resources[resource_id]
            calls    == <<FetchCall(resource.file_url, fetch)>>
        IN  IF ~Fetched(resource, fetch)
            THEN Outcome(500, resources, blobs, calls) @@ [filename |-> None]
            ELSE Outcome(200, resources, blobs, calls)
                 @@ [filename |-> download_name(resource.original_filename,
                                                resource.file_type)]

Download ==
    /\ now < MaxOps
    /\ UNCHANGED inflight
    /\ \E rid \in RequestIds, fetch \in FetchOutcomes :
          \E r \in {download_resource(rid, fetch)} :
              /\ resources' = r.resources
              /\ blobs' = r.blobs
              /\ last' = [op |-> "download", rid |-> rid, form |-> NoForm, file |-> None,
                          status |-> r.status, calls |-> r.calls, filename |-> r.filename]
    /\ now' = now + 1
    /\ UNCHANGED nextId

\* the handlers that take a <resource_id>, and upload to fill the collection
NextById ==
    \/ Upload
    \/ GetSingle
    \/ Download
    \/ Update
    \/ Delete

SpecById == Init /\ [][NextById]_vars

(***************************************************************************)
(* PUT and DELETE /<resource_id> served by concurrent threads: every call  *)
(* to the database and to the store is a step of its own.                  *)
(***************************************************************************)
\* the requests of the threads: updates that send the title or nothing, with
\* or without a file, and every way the store can answer for a file
RaceUpdateRequests ==
    {r \in UpdateRequests :
        /\ r.set_ok
        /\ r.form \in {NoForm, [NoForm EXCEPT !.title = <<"B">>]}
        /\ r.file \in {None} \cup RealFiles
        /\ r.file = None => (r.del = "ok" /\ r.put = "ok")}

\* what a finished request leaves in last
Summary(th) ==
    [op |-> th.op, rid |-> th.rid, form |-> th.form, file |-> th.file,
     status |-> th.status, calls |-> th.calls]

Continue(t, th) == inflight' = [inflight EXCEPT ![t] = th] /\ UNCHANGED last
Finish(t, th, status) ==
    /\ inflight' = [inflight EXCEPT ![t] = [th EXCEPT !.pc = "done", !.status = status]]
    /\ last' = Summary([th EXCEPT !.status = status])

\* find_one at the head of the handler, and `if not resource`: 404
FindOne(t, th) ==
    /\ now < MaxOps
    /\ inflight[t].pc = "idle"
    /\ IF th.rid \in DOMAIN resources
       THEN Continue(t, [th EXCEPT !.pc = "found", !.found = TRUE,
                                   !.resource = resources[th.rid]])
       ELSE Finish(t, th, 404)
    /\ now' = now + 1
    /\ UNCHANGED <<resources, blobs, nextId>>

BeginUpdate(t) ==
    \E rid \in 1..MaxRecords, req \in RaceUpdateRequests :
        /\ rid \in DOMAIN resources \/ (req.form = NoForm /\ req.file = None)
        /\ FindOne(t, [Idle EXCEPT !.op = "update", !.rid = rid, !.form = req.form,
                                   !.file = req.file, !.del = req.del, !.put = req.put])

BeginDelete(t) ==
    \E rid \in 1..MaxRecords, del \in DestroyOutcomes :
        /\ rid \in DOMAIN resources \/ del = "ok"
        /\ FindOne(t, [Idle EXCEPT !.op = "delete", !.rid = rid, !.del = del])

\* cloudinary.uploader.destroy of the blob the document read names
DestroyOld(t) ==
    LET th     == inflight[t]
        old_id == th.resource.cloudinary_public_id
        called == [th EXCEPT !.calls = Append(@, DestroyCall(old_id, th.del))]
    IN  /\ th.pc = "found"
        /\ th.op = "delete" \/ Truthy(th.file)
        /\ HasBlob(th.resource)
        /\ blobs' = StoreAfterDestroy(blobs, old_id, th.del)
        /\ IF th.del = "error" THEN Finish(t, called, 500)
                               ELSE Continue(t, [called EXCEPT !.pc = "destroyed"])
        /\ UNCHANGED <<resources, nextId, now>>

\* cloudinary.uploader.upload of the new file, and update_data.update
UploadNew(t) ==
    LET th     == inflight[t]
        called == [th EXCEPT !.calls = Append(@, UploadCall(th.file, th.put))]
    IN  /\ th.op = "update"
        /\ Truthy(th.file)
        /\ th.pc = "destroyed" \/ (th.pc = "found" /\ ~HasBlob(th.resource))
        /\ blobs' = StoreAfterUpload(blobs, th.file, th.put)
        /\ IF th.put = "error"
           THEN Finish(t, called, 500)
           ELSE Continue(t, [called EXCEPT
                    !.pc = "uploaded",
                    !.update_data = DictUpdate(FormUpdate(th.form),
                                        FileUpdate(th.form, th.file, th.resource,
                                                   UploadResult(th.file, th.put)))])
        /\ UNCHANGED <<resources, nextId, now>>

\* update_one; matched is the matched_count of its result
UpdateOne(t) ==
    LET th == inflight[t]
    IN  /\ th.op = "update"
        /\ th.pc = "uploaded" \/ (th.pc = "found" /\ ~Truthy(th.file))
        /\ resources' = update_one(resources, th.rid,
                                   IF th.pc = "uploaded" THEN th.update_data
                                                         ELSE FormUpdate(th.form))
        /\ Continue(t, [th EXCEPT !.pc = "written",
                                  !.matched = (th.rid \in DOMAIN resources)])
        /\ UNCHANGED <<blobs, nextId, now>>

\* the second find_one and serialize_resource, which raises on None
Reread(t) ==
    LET th == inflight[t]
    IN  /\ th.pc = "written"
        /\ Finish(t, th, IF th.rid \in DOMAIN resources THEN 200 ELSE 500)
        /\ UNCHANGED <<resources, blobs, nextId, now>>

\* delete_one and the answer
DeleteOne(t) ==
    LET th == inflight[t]
    IN  /\ th.op = "delete"
        /\ th.pc = "destroyed" \/ (th.pc = "found" /\ ~HasBlob(th.resource))
        /\ resources' = delete_one(resources, th.rid)
        /\ Finish(t, th, 200)
        /\ UNCHANGED <<blobs, nextId, now>>

\* the documents the threads work on come from complete uploads
Populate == Upload /\ last'.form = FullForm /\ last'.status = 201

NextRace ==
    \/ Populate
    \/ \E t \in Threads : BeginUpdate(t)
    \/ \E t \in Threads : BeginDelete(t)
    \/ \E t \in Threads : DestroyOld(t)
    \/ \E t \in Threads : UploadNew(t)
    \/ \E t \in Threads : UpdateOne(t)
    \/ \E t \in Threads : Reread(t)
    \/ \E t \in Threads : DeleteOne(t)

SpecRace == Init /\ [][NextRace]_vars

(***************************************************************************)
(* GET /user and GET / : the two lists                                     *)
(***************************************************************************)
\* int(text): blanks around an optional sign and decimal digits; anything
\* else raises ValueError
DigitValue(c) ==
    CASE c = "0" -> 0 [] c = "1" -> 1 [] c = "2" -> 2 [] c = "3" -> 3 [] c = "4" -> 4
      [] c = "5" -> 5 [] c = "6" -> 6 [] c = "7" -> 7 [] c = "8" -> 8 [] c = "9" -> 9

RECURSIVE DigitsValue(_)
DigitsValue(s) ==
    IF s = <<>> THEN 0
    ELSE 10 * DigitsValue(SubSeq(s, 1, Len(s) - 1)) + DigitValue(s[Len(s)])

Unsigned(s) ==
    LET t == Strip(s, {" "})
    IN  IF t # <<>> /\ t[1] \in {"+", "-"} THEN Tail(t) ELSE t

IsInt(s)  == Unsigned(s) # <<>> /\ \A i \in 1..Len(Unsigned(s)) : Unsigned(s)[i] \in Digits
int(s) ==
    LET t == Strip(s, {" "})
    IN  IF t[1] = "-" THEN 0 - DigitsValue(Unsigned(s)) ELSE DigitsValue(Unsigned(s))

max(a, b) == IF a >= b THEN a ELSE b
min(a, b) == IF a <= b THEN a ELSE b

\* the limits of the two lists
UserDefaultLimit  == 10
UserMaxLimit      == 50
AdminDefaultLimit == 20
AdminMaxLimit     == 100
DefaultPage       == 1

\* a paging that puts no floor under the limit
PagingNoFloor(args, default_limit, max_limit) ==
    IF \/ args.page # None /\ ~IsInt(args.page)
       \/ args.limit # None /\ ~IsInt(args.limit)
    THEN [ok |-> FALSE, page |-> 0, limit |-> 0, skip |-> 0]
    ELSE
        LET page  == max(1, IF args.page = None THEN DefaultPage ELSE int(args.page))
            limit == min(max_limit, IF args.limit = None THEN default_limit ELSE int(args.limit))
        IN  [ok |-> TRUE, page |-> page, limit |-> max(0, limit), skip |-> (page - 1) * limit]

\* page, limit and skip of a list request; int() of a text that is no
\* integer raises, which ok records
Paging(args, default_limit, max_limit) ==
    IF \/ args.page # None /\ ~IsInt(args.page)
       \/ args.limit # None /\ ~IsInt(args.limit)
    THEN [ok |-> FALSE, page |-> 0, limit |-> 0, skip |-> 0]
    ELSE
        LET page  == max(1, IF args.page = None THEN DefaultPage ELSE int(args.page))
            limit == max(1, min(max_limit,
                                IF args.limit = None THEN default_limit ELSE int(args.limit)))
        IN  [ok |-> TRUE, page |-> page, limit |-> limit, skip |-> (page - 1) * limit]

\* {'$regex': pattern, '$options': 'i'} for a pattern of letters and digits:
\* the pattern occurs in the text, case ignored
RegexSearch(pattern, text) ==
    \E i \in 0..(Len(text) - Len(pattern)) :
        SubSeq(Lower(text), i + 1, i + Len(pattern)) = Lower(pattern)

\* the keys of the query a list builds from its arguments
UserQuery(args) ==
    {"department", "level"} \cup {k \in {"category"} : Truthy(args[k])}

AdminQuery(args) ==
    {k \in {"department", "level", "category", "file_type", "title"} : Truthy(args[k])}

\* collection.find(query): the _ids of the documents the query matches
find(docs, keys, args) ==
    {i \in DOMAIN docs :
        \A k \in keys : IF k = "title" THEN RegexSearch(args[k], docs[i][k])
                                       ELSE docs[i][k] = args[k]}

\* .sort('created_at', DESCENDING)
RECURSIVE SortAscending(_, _)
SortAscending(docs, ids) ==
    IF ids = {} THEN <<>>
    ELSE LET first == CHOOSE i \in ids :
                         \A j \in ids : \/ docs[i].created_at < docs[j].created_at
                                        \/ docs[i].created_at = docs[j].created_at /\ i <= j
         IN  <<first>> \o SortAscending(docs, ids \ {first})

RECURSIVE SortDescending(_, _)
SortDescending(docs, ids) ==
    IF ids = {} THEN <<>>
    ELSE LET first == CHOOSE i \in ids :
                         \A j \in ids : \/ docs[i].created_at > docs[j].created_at
                                        \/ docs[i].created_at = docs[j].created_at /\ i <= j
         IN  <<first>> \o SortDescending(docs, ids \ {first})

\* .skip(skip).limit(limit)
SkipLimit(sorted, skip, limit) == SubSeq(sorted, skip + 1, min(skip + limit, Len(sorted)))

NoPage == [page |-> 0, limit |-> 0, skip |-> 0, result |-> <<>>]

\* the response of a list: its status, the collection and the store it
\* leaves, and the _ids of the documents it returns, in order
get_user_resources(args) ==
    IF ~Truthy(args.department) \/ ~Truthy(args.level)
    THEN Outcome(400, resources, blobs, <<>>) @@ NoPage
    ELSE
        LET paging == Paging(args, UserDefaultLimit, UserMaxLimit)
            cursor == SkipLimit(SortDescending(resources, find(resources, UserQuery(args), args)),
                                paging.skip, paging.limit)
        IN  IF ~paging.ok
            THEN Outcome(500, resources, blobs, <<>>) @@ NoPage
            ELSE Outcome(200, resources, blobs, <<>>)
                 @@ [page |-> paging.page, limit |-> paging.limit, skip |-> paging.skip,
                     result |-> cursor]

get_all_resources(args) ==
    LET paging == Paging(args, AdminDefaultLimit, AdminMaxLimit)
        cursor == SkipLimit(SortDescending(resources, find(resources, AdminQuery(args), args)),
                            paging.skip, paging.limit)
    IN  IF ~paging.ok
        THEN Outcome(500, resources, blobs, <<>>) @@ NoPage
        ELSE Outcome(200, resources, blobs, <<>>)
             @@ [page |-> paging.page, limit |-> paging.limit, skip |-> paging.skip,
                 result |-> cursor]

\* query strings: one filter off the plain request, or one of page and limit
\* off a small grid
NoArgs == [department |-> None, level |-> None, category |-> None,
           file_type |-> None, title |-> None, page |-> None, limit |-> None]
ScopedArgs == [NoArgs EXCEPT !.department = <<"C", "S">>, !.level = <<"1">>]

PageTexts  == {None, <<"-", "1">>, <<"0">>, <<"1">>, <<"2">>, <<"3">>, <<"x">>}
LimitTexts == {None, <<"-", "1">>, <<"0">>, <<"1">>, <<"2">>, <<"5", "0">>, <<"5", "1">>,
               <<"1", "0", "0">>, <<"1", "0", "1">>, <<>>}

PagedArgs(args) ==
    {[args EXCEPT !.page = p, !.limit = l] : p \in PageTexts, l \in {None, <<"1">>}}
    \cup {[args EXCEPT !.page = p, !.limit = l] : p \in {None, <<"2">>}, l \in LimitTexts}

UserArgs ==
    PagedArgs(ScopedArgs)
    \cup {[ScopedArgs EXCEPT !.department = v] : v \in Blank}
    \cup {[ScopedArgs EXCEPT !.level = v] : v \in Blank}
    \cup {[ScopedArgs EXCEPT !.category = v, !.limit = l] :
             v \in Categories \cup {<<>>}, l \in {None, <<"1">>}}

AdminArgs ==
    PagedArgs(NoArgs)
    \cup {[NoArgs EXCEPT ![k] = FullForm[k], !.limit = l] :
             k \in {"department", "level", "category", "file_type"}, l \in {None, <<"1">>}}
    \cup {[NoArgs EXCEPT !.title = v, !.limit = l] :
             v \in {<<"a">>, <<"B">>, <<>>}, l \in {None, <<"1">>}}

ListUser ==
    /\ now < MaxOps
    /\ UNCHANGED inflight
    /\ \E args \in UserArgs :
          \E r \in {get_user_resources(args)} :
              /\ resources' = r.resources
              /\ blobs' = r.blobs
              /\ last' = [op |-> "list_user", rid |-> 0, form |-> NoForm, file |-> None,
                          status |-> r.status, calls |-> r.calls, args |-> args,
                          page |-> r.page, limit |-> r.limit, skip |-> r.skip,
                          result |-> r.result]
    /\ now' = now + 1
    /\ UNCHANGED nextId

ListAll ==
    /\ now < MaxOps
    /\ UNCHANGED inflight
    /\ \E args \in AdminArgs :
          \E r \in {get_all_resources(args)} :
              /\ resources' = r.resources
              /\ blobs' = r.blobs
              /\ last' = [op |-> "list_all", rid |-> 0, form |-> NoForm, file |-> None,
                          status |-> r.status, calls |-> r.calls, args |-> args,
                          page |-> r.page, limit |-> r.limit, skip |-> r.skip,
                          result |-> r.result]
    /\ now' = now + 1
    /\ UNCHANGED nextId

\* A read leaves the collection and the store alone, so what a read can see
\* is what writes alone can build: the reads are taken as the last request
\* after uploads and deletes.
Writing == last.op \in {"none", "upload", "delete"}

NextRead ==
    \/ Writing /\ Upload
    \/ Writing /\ Delete
    \/ Writing /\ GetSingle
    \/ Writing /\ Download
    \/ Writing /\ ListUser
    \/ Writing /\ ListAll

SpecRead == Init /\ [][NextRead]_vars

(***************************************************************************)
(* The file name of a download, taken alone: download_and_convert is       *)
(* applied to one original name and one file type.                         *)
(***************************************************************************)
NamePrefixes == {<<>>, <<"/">>, <<".", ".", "/">>, <<"d", "/">>, <<"d", "\\">>, <<" ">>}
NameStems    == {<<>>, <<"a">>, <<"a", ".", "b">>, <<"a", " ", "b">>, <<"A", "_">>}
NameEndings  == {<<>>, <<".">>, <<".", "p", "d", "f">>, <<".", "P", "D", "F">>,
                 <<".", "j", "p", "g">>, <<".", "t", "x", "t">>}
OriginalNames == {p \o m \o e : p \in NamePrefixes, m \in NameStems, e \in NameEndings}

\* the five known file types, in lower and upper case, an unknown one and ''
NameFileTypes == {<<"p", "d", "f">>, <<"P", "D", "F">>, <<"d", "o", "c">>,
                  <<"m", "p", "3">>, <<"m", "p", "4">>, <<"i", "m", "g">>,
                  <<"I", "m", "g">>, <<"t", "x", "t">>, <<>>}

InitNorm ==
    /\ resources = <<>>
    /\ blobs = {}
    /\ nextId = 1
    /\ now = 0
    /\ inflight = [t \in Threads |-> Idle]
    /\ \E n \in OriginalNames, t \in NameFileTypes :
          last = [op |-> "name", original_filename |-> n, file_type |-> t,
                  filename |-> None]

Normalize ==
    /\ last.op = "name"
    /\ UNCHANGED inflight
    /\ last.filename = None
    /\ last' = [last EXCEPT
                   !.filename = download_name(last.original_filename, last.file_type)]
    /\ UNCHANGED <<resources, blobs, nextId, now>>

NextNorm == Normalize

SpecNorm == InitNorm /\ [][NextNorm]_vars

(***************************************************************************)
(* Properties.                                                             *)
(***************************************************************************)
\* the step handles a request of the given kind
Handles(op) == now' = now + 1 /\ last'.op = op

\* the store calls of the last request that are of the given kind and outcome
CallsOf(request, call, outcomes) ==
    {j \in 1..Len(request.calls) :
        request.calls[j].call = call /\ request.calls[j].outcome \in outcomes}

\* C1: in every reachable state, every document whose cloudinary_public_id
\* is not None names a blob the store holds.
C1_RecordsReferenceStoredBlobs ==
    \A i \in DOMAIN resources :
        resources[i].cloudinary_public_id # None
            => resources[i].cloudinary_public_id \in blobs

\* C2: an upload in which a required field is absent or empty, or which
\* carries no payload, answers 400, calls the store not at all and inserts
\* no document.
C2_BlankFieldRejected ==
    [][(/\ Handles("upload")
        /\ \/ \E k \in RequiredFields : ~Truthy(last'.form[k])
           \/ ~Truthy(last'.file))
       => (/\ last'.status = 400
           /\ last'.calls = <<>>
           /\ resources' = resources
           /\ blobs' = blobs)]_vars

\* C3: an update with a payload whose upload fails (the call raises or the
\* result has no usable URL) reports an error and leaves the collection as
\* it was.
C3_FailedReplaceCommitsNothing ==
    [][(/\ Handles("update")
        /\ Truthy(last'.file)
        /\ CallsOf(last', "upload", {"error", "rejected"}) # {})
       => (/\ last'.status >= 400
           /\ resources' = resources)]_vars

\* C4: a successful update with a payload of a document that has a
\* cloudinary_public_id destroys the old blob first and uploads the new one
\* second; afterwards the document holds the URL and the id that upload
\* returned, and the store no longer holds the old id unless the upload
\* reused it.
C4_ReplaceDestroysThenUploads ==
    [][(/\ Handles("update")
        /\ last'.status = 200
        /\ Truthy(last'.file)
        /\ last'.rid \in DOMAIN resources
        /\ Truthy(resources[last'.rid].cloudinary_public_id))
       => LET old    == resources[last'.rid].cloudinary_public_id
              calls  == last'.calls
              result == UploadResult(last'.file, calls[2].outcome)
          IN  /\ Len(calls) = 2
              /\ calls[1].call = "destroy" /\ calls[1].arg = old
              /\ calls[2].call = "upload" /\ calls[2].arg = last'.file
              /\ resources'[last'.rid].file_url = result.secure_url
              /\ resources'[last'.rid].cloudinary_public_id = result.public_id
              /\ (old \in blobs' => old = result.public_id)]_vars

\* C4 happens: a replace that moved the document from one blob to another
C4_Witness ==
    /\ last.op = "update" /\ last.status = 200 /\ Truthy(last.file)
    /\ Len(last.calls) = 2
    /\ last.calls[1].call = "destroy"
    /\ last.calls[2].outcome = "ok"
    /\ last.calls[1].arg # PublicId(last.file)
    /\ last.calls[1].arg \notin blobs
    /\ resources[last.rid].cloudinary_public_id = PublicId(last.file)
    /\ PublicId(last.file) \in blobs

\* C5: an update without a payload leaves every field the form does not
\* send as it was, and always file_url, cloudinary_public_id,
\* original_filename, _id and created_at; it leaves every other document
\* and the store as they were and calls the store not at all.
C5_MetadataOnlyUpdate ==
    [][(Handles("update") /\ ~Truthy(last'.file))
       => (/\ DOMAIN resources' = DOMAIN resources
           /\ \A i \in DOMAIN resources :
                 IF i = last'.rid
                 THEN /\ DOMAIN resources'[i] = DOMAIN resources[i]
                      /\ \A k \in DOMAIN resources[i] :
                            (k \notin UpdatableFields \/ last'.form[k] = None)
                               => resources'[i][k] = resources[i][k]
                 ELSE resources'[i] = resources[i]
           /\ blobs' = blobs
           /\ last'.calls = <<>>)]_vars

\* C5 happens: a title is patched while a second document exists
C5_Witness ==
    /\ last.op = "update" /\ last.status = 200 /\ last.file = None
    /\ Cardinality(DOMAIN resources) = 2
    /\ last.rid \in DOMAIN resources
    /\ last.form.title = <<"B">>
    /\ resources[last.rid].title = <<"B">>
    /\ \E i \in DOMAIN resources : resources[i].title # <<"B">>

\* C6: after a delete that answers 200, the id matches no document, get-one
\* answers 404 and the store does not hold the cloudinary_public_id the
\* document had.
C6_DeleteRemovesRecordAndBlob ==
    [][(Handles("delete") /\ last'.status = 200)
       => (/\ last'.rid \in DOMAIN resources
           /\ last'.rid \notin DOMAIN resources'
           /\ \A rid \in RequestIds :
                 rid = last'.rid => get_single_resource(rid)' = 404
           /\ resources[last'.rid].cloudinary_public_id # None
                 => resources[last'.rid].cloudinary_public_id \notin blobs')]_vars

\* C6 happens: a document with a stored blob was deleted
C6_Witness ==
    /\ last.op = "delete" /\ last.status = 200
    /\ Len(last.calls) = 1
    /\ last.calls[1].call = "destroy"
    /\ last.calls[1].arg \notin blobs
    /\ last.rid \notin DOMAIN resources
    /\ last.rid < nextId

\* C7: a destroy that fails does not fail the request: delete still removes
\* the document and answers 200, update still uploads the new blob and
\* commits.
C7_DestroyFailureNonFatal ==
    [][(/\ (Handles("delete") \/ Handles("update"))
        /\ CallsOf(last', "destroy", {"error"}) # {})
       => (/\ last'.status = 200
           /\ Handles("delete") => last'.rid \notin DOMAIN resources'
           /\ Handles("update") =>
                 /\ CallsOf(last', "upload", {"ok"}) # {}
                 /\ resources'[last'.rid].cloudinary_public_id = PublicId(last'.file))]_vars

\* C8: an upload that passes the validation and whose store call fails
\* (raises, or returns no usable URL) answers 500 and leaves the collection
\* as it was.
C8_FailedUploadInsertsNothing ==
    [][(/\ Handles("upload")
        /\ CallsOf(last', "upload", {"error", "rejected"}) # {})
       => (/\ last'.status = 500
           /\ resources' = resources
           /\ nextId' = nextId)]_vars

\* C8 happens: the store answered without a URL
C8_Witness ==
    /\ last.op = "upload" /\ last.status = 500
    /\ Len(last.calls) = 1
    /\ last.calls[1].outcome = "rejected"
    /\ ~UploadRejects(last.form, last.file)

\* C9: a document keeps its _id and created_at as long as it exists (it
\* leaves the collection only by delete and enters it only by upload, under
\* a fresh _id), and its cloudinary_public_id or file_url changes only in an
\* update with a payload that also destroyed the blob the document named.
C9_IdentityAndLocatorStable ==
    [][/\ \A i \in DOMAIN resources \ DOMAIN resources' :
             Handles("delete") /\ last'.rid = i
       /\ \A i \in DOMAIN resources' \ DOMAIN resources :
             Handles("upload") /\ i = nextId /\ nextId' = nextId + 1
       /\ \A i \in DOMAIN resources \cap DOMAIN resources' :
             /\ resources'[i].created_at = resources[i].created_at
             /\ (\/ resources'[i].cloudinary_public_id # resources[i].cloudinary_public_id
                 \/ resources'[i].file_url # resources[i].file_url)
                => (/\ Handles("update") /\ last'.rid = i /\ Truthy(last'.file)
                    /\ resources[i].cloudinary_public_id # None
                          => \E j \in CallsOf(last', "destroy", {"ok"}) :
                                last'.calls[j].arg = resources[i].cloudinary_public_id)]_vars

\* C9 happens: a replace changed the locator of a document that existed
\* before and after, next to a second document
C9_Witness ==
    /\ last.op = "update" /\ last.status = 200 /\ Truthy(last.file)
    /\ Cardinality(DOMAIN resources) = 2
    /\ CallsOf(last, "destroy", {"ok"}) # {}
    /\ last.calls[1].arg # resources[last.rid].cloudinary_public_id
    /\ resources[last.rid].created_at < now - 1

\* C10: in every reachable state the file_type of every document has no
\* uppercase character.
C10_FileTypeLowercase ==
    \A i \in DOMAIN resources :
        \A j \in 1..Len(resources[i].file_type) : ~IsUpper(resources[i].file_type[j])

\* C11: in every reachable state the extension of every document's
\* original_filename is the extension get_file_extension gives its file_type.
C11_FilenameExtensionMatchesType ==
    \A i \in DOMAIN resources :
        splitext(resources[i].original_filename)[2]
            = get_file_extension(resources[i].file_type)

\* C18: in every reachable state no two documents hold the same
\* cloudinary_public_id (other than None), and so no step removes from the
\* store the blob of a document the request did not address.
C18_PublicIdsUnique ==
    [][/\ \A i, j \in DOMAIN resources' :
             (i # j /\ resources'[i].cloudinary_public_id # None)
                => resources'[i].cloudinary_public_id # resources'[j].cloudinary_public_id
       /\ \A i \in DOMAIN resources \cap DOMAIN resources' :
             (/\ i # last'.rid
              /\ resources[i].cloudinary_public_id \in blobs
              /\ resources'[i].cloudinary_public_id = resources[i].cloudinary_public_id)
                => resources'[i].cloudinary_public_id \in blobs']_vars

\* C12: for every original name and file type, the extension of the name
\* download_and_convert returns is the one get_file_extension gives the file
\* type ('' for an unknown type), and the name has no path separator.
C12_DownloadNameExtension ==
    (last.op = "name" /\ last.filename # None)
        => /\ splitext(last.filename)[2] = get_file_extension(last.file_type)
           /\ \A i \in 1..Len(last.filename) : last.filename[i] \notin {"/", "\\"}

\* C15: get-one, download, update and delete answer 404 for a well-formed id
\* that matches no document, and 400 or 404, never 500, for an id that is
\* not well-formed; in both cases the collection and the store stay as they
\* were.
C15_UnknownIdIsClientError ==
    [][(/\ Handles("get") \/ Handles("download") \/ Handles("update") \/ Handles("delete")
        /\ last'.rid \notin DOMAIN resources)
       => (/\ IF IsObjectId(last'.rid) THEN last'.status = 404
                                       ELSE last'.status \in {400, 404}
           /\ resources' = resources
           /\ blobs' = blobs)]_vars

\* C13: a scoped list without both department and level answers 400;
\* otherwise, whenever page and limit are integers or absent, it answers 200
\* with page max(1, page), limit clamped into [1, 50] (10 when absent) and
\* skip (page - 1) * limit, and returns at most limit, so at most 50,
\* documents.
C13_ScopedListPaging ==
    last.op = "list_user" =>
        IF ~Truthy(last.args.department) \/ ~Truthy(last.args.level)
        THEN last.status = 400
        ELSE (/\ last.args.page = None \/ IsInt(last.args.page)
              /\ last.args.limit = None \/ IsInt(last.args.limit))
             => LET page  == IF last.args.page = None THEN 1 ELSE int(last.args.page)
                    limit == IF last.args.limit = None THEN 10 ELSE int(last.args.limit)
                IN  /\ last.status = 200
                    /\ last.page = (IF page < 1 THEN 1 ELSE page)
                    /\ last.limit = (IF limit < 1 THEN 1 ELSE IF limit > 50 THEN 50 ELSE limit)
                    /\ last.skip = (last.page - 1) * last.limit
                    /\ Len(last.result) <= last.limit
                    /\ Len(last.result) <= 50

C13_Witness ==
    /\ last.op = "list_user"
    /\ last.status = 200
    /\ last.args.page = <<"2">>
    /\ last.args.limit = <<"5", "1">>
    /\ last.skip = 50
    /\ DOMAIN resources # {}

\* the documents a list request selects, and the number of them that are
\* newer than a given one
Selected(request) ==
    find(resources, IF request.op = "list_user" THEN UserQuery(request.args)
                                                ELSE AdminQuery(request.args), request.args)
Newer(ids, i) == Cardinality({j \in ids : resources[j].created_at > resources[i].created_at})

\* C14: when the selected documents have distinct created_at, the sequence
\* either list returns is strictly descending by created_at and holds at
\* position k the selected document with skip + k - 1 newer selected ones:
\* every selected document of the window skip .. skip+limit-1 and no other.
C14_ListIsWindowOfDescendingOrder ==
    (/\ last.op \in {"list_user", "list_all"}
     /\ last.status = 200
     /\ \A i, j \in Selected(last) : i # j => resources[i].created_at # resources[j].created_at)
    => /\ \A k, m \in 1..Len(last.result) :
             k < m => resources[last.result[k]].created_at > resources[last.result[m]].created_at
       /\ \A k \in 1..Len(last.result) :
             /\ last.result[k] \in Selected(last)
             /\ Newer(Selected(last), last.result[k]) = last.skip + k - 1
       /\ \A i \in Selected(last) :
             (/\ Newer(Selected(last), i) >= last.skip
              /\ Newer(Selected(last), i) < last.skip + last.limit)
             => \E k \in 1..Len(last.result) : last.result[k] = i

C14_Witness ==
    /\ last.op = "list_user"
    /\ last.status = 200
    /\ last.skip = 1
    /\ last.limit = 1
    /\ Cardinality(Selected(last)) = 2
    /\ last.result = <<1>>

\* C19: get-one, the two lists and download leave every document and the
\* store as they were, whatever they answer.
C19_ReadsChangeNothing ==
    [][(\/ Handles("get") \/ Handles("list_user")
        \/ Handles("list_all") \/ Handles("download"))
       => (resources' = resources /\ blobs' = blobs)]_vars

C19_Witness ==
    /\ last.op = "download"
    /\ last.status = 500
    /\ last.rid \in DOMAIN resources
    /\ blobs # {}

\* the documents that name a public_id
Referencing(docs, public_id) ==
    {i \in DOMAIN docs : docs[i].cloudinary_public_id = public_id}

\* thread w writes its update while thread l, which read the same document
\* and uploaded another file, has written already
LastWriteWins(l, w) ==
    /\ l # w
    /\ inflight[w].pc = "uploaded" /\ inflight'[w].pc = "written"
    /\ inflight[l].op = "update" /\ inflight[l].pc \in {"written", "done"}
    /\ inflight[l].rid = inflight[w].rid
    /\ inflight[l].resource = inflight[w].resource
    /\ Truthy(inflight[l].file) /\ inflight[l].put = "ok" /\ inflight[w].put = "ok"
    /\ inflight[l].matched

\* C16: two updates with files on one document can both read the same old
\* document and both upload; when the second write lands, the blob the first
\* writer uploaded, if it is neither the old blob nor the second writer's and
\* no other document names it, is in the store and no document names it.
C16_LoserBlobOrphaned ==
    [][\A l, w \in Threads :
          (/\ LastWriteWins(l, w)
           /\ PublicId(inflight[l].file) # PublicId(inflight[w].file)
           /\ PublicId(inflight[l].file) # inflight[l].resource.cloudinary_public_id
           /\ Referencing(resources, PublicId(inflight[l].file)) \subseteq {inflight[l].rid})
          => (/\ PublicId(inflight[l].file) \in blobs'
              /\ Referencing(resources', PublicId(inflight[l].file)) = {}
              /\ resources'[inflight[w].rid].cloudinary_public_id = PublicId(inflight[w].file))]_vars

\* both updates answered 200 on the same old document; the document names
\* the blob of one, the blob of the other is stored and named by nothing
C16_Witness ==
    \E l, w \in Threads :
        /\ l # w
        /\ inflight[l].op = "update" /\ inflight[w].op = "update"
        /\ inflight[l].pc = "done" /\ inflight[w].pc = "done"
        /\ inflight[l].status = 200 /\ inflight[w].status = 200
        /\ inflight[l].rid = inflight[w].rid
        /\ inflight[l].resource = inflight[w].resource
        /\ Truthy(inflight[l].file) /\ Truthy(inflight[w].file)
        /\ resources[inflight[w].rid].cloudinary_public_id = PublicId(inflight[w].file)
        /\ PublicId(inflight[l].file) \in blobs
        /\ Referencing(resources, PublicId(inflight[l].file)) = {}

\* C17: an _id that was assigned and is gone never comes back, and an update
\* that finishes when its document is gone does not answer 200.
C17_NoResurrection ==
    [][/\ \A i \in 1..(nextId - 1) : i \notin DOMAIN resources => i \notin DOMAIN resources'
       /\ \A t \in Threads :
             (/\ inflight[t].op = "update"
              /\ inflight[t].pc # "done" /\ inflight'[t].pc = "done"
              /\ inflight[t].rid \notin DOMAIN resources)
             => inflight'[t].status # 200]_vars

\* an update read its document, a delete removed it, and the update's write
\* then matched nothing: it answered 500 and the document is still gone
C17_Witness ==
    \E u, d \in Threads :
        /\ inflight[u].op = "update" /\ inflight[u].pc = "done"
        /\ inflight[u].found /\ ~inflight[u].matched
        /\ inflight[u].status = 500
        /\ inflight[d].op = "delete" /\ inflight[d].status = 200
        /\ inflight[d].rid = inflight[u].rid
        /\ inflight[u].rid \notin DOMAIN resources

====
